---------------------------- MODULE Spec2Model ----------------------------
(***************************************************************************)
(* Model of the reference key broker service (reference-kbs).             *)
(*                                                                         *)
(* The handlers auth, attest and key of src/src/lib.rs run as concurrent  *)
(* requests over the session registry; each request takes a guard of the  *)
(* registry lock for its lookup, suspends at its database lookup, where   *)
(* its client may drop it, and takes the per-session mutex around the     *)
(* attester call.  The SEV attester of src/src/sev.rs is modelled as pure *)
(* operators on its three option slots.  The secret store of              *)
(* src/src/secrets_store.rs is modelled with its lock and its handlers.   *)
(*                                                                         *)
(* Spec runs the handlers, FairSpec runs them under the scheduling of the *)
(* runtime, AttesterSpec drives one attester directly and StoreSpec runs  *)
(* the handlers of the secret store.                                      *)
(***************************************************************************)
EXTENDS Integers, Sequences, FiniteSets, TLC

(***************************************************************************)
(* Bounds of the model and constants of the program.                      *)
(***************************************************************************)

\* The clock runs from 0 to MaxTime; one unit is three hours.
MaxTime == 2

\* Number of calls made on the attester driven directly in AttesterSpec.
MaxCalls == 4

\* Session::new: Duration::from_secs(3 * 60 * 60), one unit of the clock.
SessionLifetime == 1

\* encrypt_secret: plain_secret.len() > 4096 is rejected.
MaxSecretLen == 4096

\* encrypt_secret: vec![0; 512 - plain_secret.len()].
PadLen == 512

\* Request slots: each runs one handler at a time.
Procs == {"r1", "r2"}

\* Values Uuid::new_v4 can produce (session ids, cookie values).
SessionIds == {"s1", "s2"}

\* Workload ids a client can put in an auth request.
WorkloadIds == {"w1"}

\* A request that carries no session_id cookie.
NoCookie == "none"

Cookies == SessionIds \cup {NoCookie}

\* Lengths of the secrets the secrets table can hold.
SecretLens == {512, 513, 4097}

\* Lengths of the plaintexts handed to encrypt_secret in AttesterSpec.
PlainLens == {0, 1, 511, 512, 513, 4095, 4096, 4097}

\* Option<T>: the slot is empty or holds a value.
None == "None"
Some == "Some"

\* SecretStore.url and SecretStore.token: the empty string and two others.
Urls == {"", "u1", "u2"}

Tokens == {"", "t1", "t2"}

\* SecretStore::new
SecretStoreNew(url, token) == [url |-> url, token |-> token]

\* SecretStore::default(): both strings empty.
SecretStoreDefault == SecretStoreNew("", "")

(***************************************************************************)
(* hex::decode as used on the launch measurement of the measurements      *)
(* table.  A string is a sequence of characters; a byte is an integer.    *)
(***************************************************************************)

HexDigits == <<"0", "1", "2", "3", "4", "5", "6", "7",
               "8", "9", "a", "b", "c", "d", "e", "f">>

IsHexDigit(c) == \E i \in 1..Len(HexDigits) : HexDigits[i] = c

HexVal(c) == (CHOOSE i \in 1..Len(HexDigits) : HexDigits[i] = c) - 1

\* hex::decode(s) is Ok iff s has even length and only hex digits.
HexDecodeOk(s) ==
    /\ Len(s) % 2 = 0
    /\ \A i \in 1..Len(s) : IsHexDigit(s[i])

HexDecode(s) ==
    [i \in 1..(Len(s) \div 2) |-> 16 * HexVal(s[2 * i - 1]) + HexVal(s[2 * i])]

\* Launch measurements the measurements table can hold for a workload.
LaunchMeasurements ==
    { <<"a", "b">>, <<"0", "0">>, <<"z", "z">> }

\* Launch measurements handed to attest in AttesterSpec.
HexStrings ==
    { <<>>, <<"a">>, <<"a", "b">>, <<"0", "0">>, <<"a", "b", "c">>, <<"z", "z">>,
      <<"a", "g">> }

\* The digest the guest was really launched with.
GuestDigest == <<171>>

\* attestation.tee_evidence: a string that parses as a Measurement over a
\* digest, or one that does not parse.
Evidences ==
    { [parses |-> FALSE, digest |-> <<>>],
      [parses |-> TRUE, digest |-> GuestDigest] }

(***************************************************************************)
(* The SEV attester (src/src/sev.rs).                                     *)
(***************************************************************************)

\* SevAttester::new
SevAttesterNew(workload_id, nonce) ==
    [ _workload_id |-> workload_id,
      nonce |-> nonce,
      chain |-> Some,
      session |-> None,
      session_verified |-> None ]

\* Results of the attester's operations.
Ok(v) == [ok |-> TRUE, panic |-> FALSE, err |-> "", val |-> v]
Err(e) == [ok |-> FALSE, panic |-> FALSE, err |-> e, val |-> <<>>]
Panic(e) == [ok |-> FALSE, panic |-> TRUE, err |-> e, val |-> <<>>]

\* challenge as it would be had line 38 cloned the chain instead of taking it.
challenge_keeps_chain(a, policyOk, startOk, jsonOk) ==
    IF ~policyOk
    THEN [att |-> a, res |-> Err("SevPolicy")]
    ELSE IF a.chain = None
    THEN [att |-> a, res |-> Err("SevMissingChain")]
    ELSE IF ~startOk
    THEN [att |-> a, res |-> Err("SevSession")]
    ELSE IF ~jsonOk
    THEN [att |-> a, res |-> Err("SevChallengeJson")]
    ELSE [att |-> [a EXCEPT !.session = Some],
          res |-> Ok([nonce |-> a.nonce, id |-> a.nonce])]

\* SevAttester::challenge.  policyOk, startOk and jsonOk are the outcomes of
\* Session::try_from(policy), session.start(chain) and serde_json::to_string.
challenge(a, policyOk, startOk, jsonOk) ==
    IF ~policyOk
    THEN [att |-> a, res |-> Err("SevPolicy")]
    ELSE IF a.chain = None
    THEN [att |-> a, res |-> Err("SevMissingChain")]
    ELSE IF ~startOk
    THEN [att |-> [a EXCEPT !.chain = None], res |-> Err("SevSession")]
    ELSE IF ~jsonOk
    THEN [att |-> [a EXCEPT !.chain = None], res |-> Err("SevChallengeJson")]
    ELSE [att |-> [a EXCEPT !.chain = None, !.session = Some],
          res |-> Ok([nonce |-> a.nonce, id |-> a.nonce])]

\* session.verify_with_digest(build, measurement, digest): the measurement
\* sent by the guest verifies iff it was taken over the expected digest.
verify_with_digest(measurement, digest) == measurement.digest = digest

\* attest as it would be had line 64-67 read the session slot without
\* taking it (as_ref in place of take): the Initialized session stays.
attest_keeps_session(a, evidence, launch_measurement, measureOk) ==
    IF ~evidence.parses
    THEN [att |-> a, res |-> Err("InvalidAttestation")]
    ELSE IF a.session = None
    THEN [att |-> a, res |-> Err("SevMissingSession")]
    ELSE IF ~measureOk
    THEN [att |-> a, res |-> Err("SevSessionMeasure")]
    ELSE IF ~HexDecodeOk(launch_measurement)
    THEN [att |-> a, res |-> Panic("hex::decode unwrap")]
    ELSE IF ~verify_with_digest(evidence, HexDecode(launch_measurement))
    THEN [att |-> a, res |-> Err("InvalidMeasurement")]
    ELSE [att |-> [a EXCEPT !.session_verified = Some], res |-> Ok(<<>>)]

\* SevAttester::attest.  measureOk is the outcome of session.measure().
attest(a, evidence, launch_measurement, measureOk) ==
    IF ~evidence.parses
    THEN [att |-> a, res |-> Err("InvalidAttestation")]
    ELSE IF a.session = None
    THEN [att |-> a, res |-> Err("SevMissingSession")]
    ELSE LET taken == [a EXCEPT !.session = None] IN
         IF ~measureOk
         THEN [att |-> taken, res |-> Err("SevSessionMeasure")]
         ELSE IF ~HexDecodeOk(launch_measurement)
         THEN [att |-> taken, res |-> Panic("hex::decode unwrap")]
         ELSE IF ~verify_with_digest(evidence, HexDecode(launch_measurement))
         THEN [att |-> taken, res |-> Err("InvalidMeasurement")]
         ELSE [att |-> [taken EXCEPT !.session_verified = Some],
               res |-> Ok(<<>>)]

\* SevAttester::encrypt_secret.  A secret is modelled by its length; the
\* wrapped data is the plaintext followed by the padding.  512 - len is a
\* usize subtraction: for len > 512 a debug build panics on the overflow and
\* a release build wraps to a length above isize::MAX, on which vec! panics.
\* secretOk is the outcome of session.secret().
encrypt_secret(a, len, secretOk) ==
    IF a.session_verified = None
    THEN Err("SevMissingVerified")
    ELSE IF len > MaxSecretLen
    THEN Err("SevSecretTooLong")
    ELSE IF PadLen - len < 0
    THEN Panic("512 - plain_secret.len() overflows")
    ELSE IF ~secretOk
    THEN Err("SevSecret")
    ELSE Ok([plain |-> len, padding |-> PadLen - len])


(***************************************************************************)
(* State of the service (src/src/lib.rs).                                 *)
(***************************************************************************)

VARIABLES
    now,                \* Instant::now(), in hours since the service started
    sessions,           \* SessionState.sessions: session id -> Session
    mutex,              \* the Mutex around each Session: holder and poison flag
    registry,           \* the RwLock around the registry: holders of a read guard
    pc,                 \* the position of each request in its handler
    req,                \* the request each slot is serving
    measurement_entry,  \* attest: the launch measurement read from the table
    secrets_entry,      \* key: the length of the secret read from the table
    resp,               \* the response of each finished request
    attestOk,           \* history: attest requests that returned 200, per session
    unit,               \* AttesterSpec: the attester driven directly
    log,                \* AttesterSpec: the calls made on it and their results
    last,               \* AttesterSpec: the last call and its result
    secret_store,       \* SECRET_STORE: the process-wide SecretStore
    store_lock,         \* the RwLock around it: the holder of the write guard
    committed           \* history: the SecretStore last written completely

vars == << now, sessions, mutex, registry, pc, req, measurement_entry,
           secrets_entry, resp, attestOk, unit, log, last, secret_store,
           store_lock, committed >>

handlerVars == << now, sessions, mutex, registry, pc, req, measurement_entry,
                  secrets_entry, resp, attestOk >>

harnessVars == << unit, log, last >>

storeVars == << secret_store, store_lock, committed >>

Free == "free"

NoReq == [op |-> "none", session_id |-> NoCookie, workload_id |-> ""]

\* The session named by cookie exists and has reached its deadline.
Expired(cookie) ==
    cookie \in DOMAIN sessions /\ now >= sessions[cookie].expires_on

NoBody == [kind |-> "none"]

NoResp == [code |-> 0, reason |-> "", body |-> NoBody]

Response(code, reason, body) == [code |-> code, reason |-> reason, body |-> body]

\* Session::new
SessionNew(id, workload_id, attester) ==
    [ id |-> id,
      workload_id |-> workload_id,
      attester |-> attester,
      status |-> "Unauthorized",
      expires_on |-> now + SessionLifetime ]

\* Session::is_valid
is_valid(session) ==
    session.status = "Authorized" /\ now < session.expires_on

\* Session::approve
approve(session) == [session EXCEPT !.status = "Authorized"]

\* Mutex::lock as it would be if it did not wait for the guard.
CanLockUnguarded(s) == s \in SessionIds

\* Mutex::lock: blocks while another request holds the guard.
CanLock(s) == mutex[s].holder = Free

\* MutexGuard dropped on a normal return.
Unlock(s) == [mutex EXCEPT ![s].holder = Free]

\* MutexGuard dropped while the handler unwinds from a panic.
UnlockPoisoned(s) == [mutex EXCEPT ![s] = [holder |-> Free, poisoned |-> TRUE]]

\* The request of slot p ends with a response.
Finish(p, code, reason, body) ==
    /\ pc' = [pc EXCEPT ![p] = "done"]
    /\ resp' = [resp EXCEPT ![p] = Response(code, reason, body)]
    /\ measurement_entry' = [measurement_entry EXCEPT ![p] = <<>>]
    /\ secrets_entry' = [secrets_entry EXCEPT ![p] = 0]

\* The request of slot p moves on to the next step of its handler.
Goto(p, label) ==
    /\ pc' = [pc EXCEPT ![p] = label]
    /\ UNCHANGED resp

\* A handler that panics: Rocket answers 500.
PanicResponse(p) == Finish(p, 500, "panic", NoBody)

Init ==
    /\ now = 0
    /\ sessions = [s \in {} |-> 0]
    /\ mutex = [s \in SessionIds |-> [holder |-> Free, poisoned |-> FALSE]]
    /\ registry = {}
    /\ pc = [p \in Procs |-> "idle"]
    /\ req = [p \in Procs |-> NoReq]
    /\ measurement_entry = [p \in Procs |-> <<>>]
    /\ secrets_entry = [p \in Procs |-> 0]
    /\ resp = [p \in Procs |-> NoResp]
    /\ attestOk = [s \in SessionIds |-> 0]
    /\ unit = SevAttesterNew("w1", "s1")
    /\ log = <<>>
    /\ last = [op |-> "none", arg |-> 0, res |-> Ok(<<>>)]
    /\ secret_store = SecretStoreDefault
    /\ store_lock = Free
    /\ committed = SecretStoreDefault

(***************************************************************************)
(* auth (src/src/lib.rs 141-191).                                         *)
(***************************************************************************)

\* Session ids already in the registry or drawn by an auth request in flight:
\* Uuid::new_v4 is taken never to return the same value twice.
UsedIds ==
    DOMAIN sessions \cup { req[p].session_id : p \in { q \in Procs : req[q].op = "auth" } }

\* Lines 148-157: draw the session id, start the tee_config lookup.
AuthStart(p) ==
    /\ pc[p] = "idle"
    /\ \E id \in SessionIds \ UsedIds, w \in WorkloadIds :
          req' = [req EXCEPT ![p] =
                     [NoReq EXCEPT !.op = "auth", !.session_id = id,
                                   !.workload_id = w]]
    /\ Goto(p, "auth_db")
    /\ UNCHANGED << now, sessions, mutex, measurement_entry, secrets_entry,
                    attestOk, registry, harnessVars, storeVars >>

\* RwLock::write on the registry: blocks while a request holds a read guard.
CanWriteRegistry == registry = {}

\* Lines 158-191: the lookup returned (its result is not used by the
\* attester); build the attester, drive challenge, insert the session
\* under the write guard of the registry, which is taken and dropped in
\* the statement of lines 185-189.
\* tee and parses are request.tee and whether request.extra_params parses
\* as a SevRequest, which the handler reads here for the first time.
AuthFinish(p) ==
    /\ pc[p] = "auth_db"
    /\ LET r == req[p] IN
       \E tee \in {"Sev", "Other"}, parses \in BOOLEAN :
       IF tee # "Sev"
       THEN /\ Finish(p, 400, "Unsupported TEE", NoBody)
            /\ UNCHANGED sessions
       ELSE IF ~parses
       THEN /\ Finish(p, 400, "serde_json", NoBody)
            /\ UNCHANGED sessions
       ELSE \E policyOk \in BOOLEAN, startOk \in BOOLEAN, jsonOk \in BOOLEAN :
               LET c == challenge(SevAttesterNew(r.session_id, r.workload_id),
                                  policyOk, startOk, jsonOk)
               IN  IF ~c.res.ok
                   THEN /\ Finish(p, 400, c.res.err, NoBody)
                        /\ UNCHANGED sessions
                   ELSE /\ CanWriteRegistry
                        /\ sessions' =
                              [s \in DOMAIN sessions \cup {r.session_id} |->
                                  IF s = r.session_id
                                  THEN SessionNew(r.session_id, r.workload_id, c.att)
                                  ELSE sessions[s]]
                        /\ Finish(p, 200, "",
                                  [kind |-> "challenge", cookie |-> r.session_id,
                                   nonce |-> c.res.val.nonce, id |-> c.res.val.id])
    /\ UNCHANGED << now, mutex, req, attestOk, registry, harnessVars, storeVars >>

(***************************************************************************)
(* attest (src/src/lib.rs 193-231).                                       *)
(***************************************************************************)

\* Lines 200-207: read the cookie, take a read guard of the registry (the
\* write guard is never held between two steps, so the read does not wait).
AttestStart(p) ==
    /\ pc[p] = "idle"
    /\ \E cookie \in Cookies :
          /\ req' = [req EXCEPT ![p] =
                        [NoReq EXCEPT !.op = "attest", !.session_id = cookie]]
          /\ IF cookie = NoCookie
             THEN Finish(p, 400, "Missing cookie", NoBody) /\ UNCHANGED registry
             ELSE /\ registry' = registry \cup {p}
                  /\ Goto(p, "attest_get")
                  /\ UNCHANGED << measurement_entry, secrets_entry >>
    /\ UNCHANGED << now, sessions, mutex, attestOk, harnessVars, storeVars >>

\* Lines 207-210 as they would be if the read guard were bound to a variable
\* of the handler instead of living in the scrutinee of the match.
AttestGetKeepsGuard(p) ==
    /\ pc[p] = "attest_get"
    /\ IF req[p].session_id \notin DOMAIN sessions
       THEN Finish(p, 400, "Invalid cookie", NoBody)
            /\ registry' = registry \ {p}
       ELSE Goto(p, "attest_wid")
            /\ UNCHANGED << registry, measurement_entry, secrets_entry >>
    /\ UNCHANGED << now, sessions, mutex, req, attestOk, harnessVars, storeVars >>

\* Lines 207-210: get(session_id) and clone the handle; the read guard is
\* dropped at the end of the statement.
AttestGet(p) ==
    /\ pc[p] = "attest_get"
    /\ registry' = registry \ {p}
    /\ IF req[p].session_id \notin DOMAIN sessions
       THEN Finish(p, 400, "Invalid cookie", NoBody)
       ELSE Goto(p, "attest_wid") /\ UNCHANGED << measurement_entry, secrets_entry >>
    /\ UNCHANGED << now, sessions, mutex, req, attestOk, harnessVars, storeVars >>

\* Line 212 as it would be if the guard were bound to a variable of the
\* handler instead of being a temporary of the statement.
AttestWorkloadIdKeepsGuard(p) ==
    /\ pc[p] = "attest_wid"
    /\ CanLock(req[p].session_id)
    /\ IF mutex[req[p].session_id].poisoned
       THEN PanicResponse(p) /\ UNCHANGED mutex
       ELSE /\ mutex' = [mutex EXCEPT ![req[p].session_id].holder = p]
            /\ Goto(p, "attest_db")
            /\ UNCHANGED << measurement_entry, secrets_entry >>
    /\ UNCHANGED << now, sessions, req, attestOk, registry, harnessVars, storeVars >>

\* Line 212: session_lock.lock().unwrap().workload_id()
AttestWorkloadId(p) ==
    /\ pc[p] = "attest_wid"
    /\ CanLock(req[p].session_id)
    /\ IF mutex[req[p].session_id].poisoned
       THEN PanicResponse(p)
       ELSE Goto(p, "attest_db") /\ UNCHANGED << measurement_entry, secrets_entry >>
    /\ UNCHANGED << now, sessions, mutex, req, attestOk, registry, harnessVars, storeVars >>

\* The measurements lookup as it would be if a missing record did not end the
\* request: the handler goes on to the attester with an empty measurement.
AttestDbIgnoresMissing(p) ==
    /\ pc[p] = "attest_db"
    /\ \E lm \in LaunchMeasurements \cup {<<>>} :
          measurement_entry' = [measurement_entry EXCEPT ![p] = lm]
    /\ Goto(p, "attest_lock")
    /\ UNCHANGED << now, sessions, mutex, req, secrets_entry, attestOk, registry,
                    harnessVars, storeVars >>

\* Lines 214-221: the measurements lookup returns.
AttestDb(p) ==
    /\ pc[p] = "attest_db"
    /\ \/ Finish(p, 400, "NotFound", NoBody)
       \/ /\ \E lm \in LaunchMeasurements :
                measurement_entry' = [measurement_entry EXCEPT ![p] = lm]
          /\ Goto(p, "attest_lock")
          /\ UNCHANGED secrets_entry
    /\ UNCHANGED << now, sessions, mutex, req, attestOk, registry, harnessVars, storeVars >>

\* Line 223: session_lock.lock().unwrap()
AttestLock(p) ==
    /\ pc[p] = "attest_lock"
    /\ CanLock(req[p].session_id)
    /\ IF mutex[req[p].session_id].poisoned
       THEN PanicResponse(p) /\ UNCHANGED mutex
       ELSE /\ mutex' = [mutex EXCEPT ![req[p].session_id].holder = p]
            /\ Goto(p, "attest_call")
            /\ UNCHANGED << measurement_entry, secrets_entry >>
    /\ UNCHANGED << now, sessions, req, attestOk, registry, harnessVars, storeVars >>

\* Lines 224-228 as they would be if the result of attester.attest were
\* dropped instead of returned with `?`: the session is approved after an Err.
AttestCallIgnoresError(p) ==
    /\ pc[p] = "attest_call"
    /\ LET s == req[p].session_id IN
       \E ev \in Evidences, measureOk \in BOOLEAN :
          LET r == attest(sessions[s].attester, ev,
                          measurement_entry[p], measureOk)
          IN  /\ sessions' = [sessions EXCEPT ![s].attester = r.att]
              /\ IF r.res.panic
                 THEN /\ mutex' = UnlockPoisoned(s)
                      /\ PanicResponse(p)
                 ELSE /\ Goto(p, "attest_approve")
                      /\ UNCHANGED << mutex, measurement_entry, secrets_entry >>
    /\ UNCHANGED << now, req, attestOk, registry, harnessVars, storeVars >>

\* Lines 224-227: session.attester().attest(...), under the guard.  ev is
\* the body of the request, which the handler reads here for the first time.
AttestCall(p) ==
    /\ pc[p] = "attest_call"
    /\ LET s == req[p].session_id IN
       \E ev \in Evidences, measureOk \in BOOLEAN :
          LET r == attest(sessions[s].attester, ev,
                          measurement_entry[p], measureOk)
          IN  /\ sessions' = [sessions EXCEPT ![s].attester = r.att]
              /\ IF r.res.ok
                 THEN /\ Goto(p, "attest_approve")
                      /\ UNCHANGED << mutex, measurement_entry, secrets_entry >>
                 ELSE IF r.res.panic
                 THEN /\ mutex' = UnlockPoisoned(s)
                      /\ PanicResponse(p)
                 ELSE /\ mutex' = Unlock(s)
                      /\ Finish(p, 400, r.res.err, NoBody)
    /\ UNCHANGED << now, req, attestOk, registry, harnessVars, storeVars >>

\* Lines 228-230: session.approve(); Ok(()).
AttestApprove(p) ==
    /\ pc[p] = "attest_approve"
    /\ LET s == req[p].session_id IN
          /\ sessions' = [sessions EXCEPT ![s] = approve(sessions[s])]
          /\ mutex' = Unlock(s)
          /\ attestOk' = [attestOk EXCEPT ![s] = @ + 1]
    /\ Finish(p, 200, "", NoBody)
    /\ UNCHANGED << now, req, registry, harnessVars, storeVars >>

(***************************************************************************)
(* key (src/src/lib.rs 233-272).                                          *)
(***************************************************************************)

\* Lines 240-247: read the cookie, take a read guard of the registry.
KeyStart(p) ==
    /\ pc[p] = "idle"
    /\ \E cookie \in Cookies :
          /\ req' = [req EXCEPT ![p] =
                        [NoReq EXCEPT !.op = "key", !.session_id = cookie]]
          /\ IF cookie = NoCookie
             THEN Finish(p, 401, "Missing cookie", NoBody) /\ UNCHANGED registry
             ELSE /\ registry' = registry \cup {p}
                  /\ Goto(p, "key_get")
                  /\ UNCHANGED << measurement_entry, secrets_entry >>
    /\ UNCHANGED << now, sessions, mutex, attestOk, harnessVars, storeVars >>

\* Lines 247-250: get(session_id) and clone the handle; the read guard is
\* dropped at the end of the statement.
KeyGet(p) ==
    /\ pc[p] = "key_get"
    /\ registry' = registry \ {p}
    /\ IF req[p].session_id \notin DOMAIN sessions
       THEN Finish(p, 401, "Invalid cookie", NoBody)
       ELSE Goto(p, "key_valid") /\ UNCHANGED << measurement_entry, secrets_entry >>
    /\ UNCHANGED << now, sessions, mutex, req, attestOk, harnessVars, storeVars >>

\* Lines 252-254: what session_lock.lock().unwrap().is_valid() comes to on
\* session s: a panic on a poisoned mutex, or the value of is_valid.
key_check(s) ==
    IF mutex[s].poisoned
    THEN "panic"
    ELSE IF ~is_valid(sessions[s])
    THEN "Invalid session"
    ELSE "valid"

\* Lines 252-254: if !session_lock.lock().unwrap().is_valid() { return 401 }
KeyIsValid(p) ==
    /\ pc[p] = "key_valid"
    /\ CanLock(req[p].session_id)
    /\ LET c == key_check(req[p].session_id) IN
       IF c = "panic"
       THEN PanicResponse(p)
       ELSE IF c = "Invalid session"
       THEN Finish(p, 401, c, NoBody)
       ELSE Goto(p, "key_db") /\ UNCHANGED << measurement_entry, secrets_entry >>
    /\ UNCHANGED << now, sessions, mutex, req, attestOk, registry, harnessVars, storeVars >>

\* Lines 256-264: the secrets lookup returns.
KeyDb(p) ==
    /\ pc[p] = "key_db"
    /\ \/ Finish(p, 401, "NotFound", NoBody)
       \/ /\ \E len \in SecretLens :
                secrets_entry' = [secrets_entry EXCEPT ![p] = len]
          /\ Goto(p, "key_lock")
          /\ UNCHANGED measurement_entry
    /\ UNCHANGED << now, sessions, mutex, req, attestOk, registry, harnessVars, storeVars >>

\* Line 266: session_lock.lock().unwrap()
KeyLock(p) ==
    /\ pc[p] = "key_lock"
    /\ CanLock(req[p].session_id)
    /\ IF mutex[req[p].session_id].poisoned
       THEN PanicResponse(p) /\ UNCHANGED mutex
       ELSE /\ mutex' = [mutex EXCEPT ![req[p].session_id].holder = p]
            /\ Goto(p, "key_call")
            /\ UNCHANGED << measurement_entry, secrets_entry >>
    /\ UNCHANGED << now, sessions, req, attestOk, registry, harnessVars, storeVars >>

\* Lines 267-271: session.attester().encrypt_secret(...).unwrap(); Ok(secret).
KeyCall(p) ==
    /\ pc[p] = "key_call"
    /\ LET s == req[p].session_id IN
       \E secretOk \in BOOLEAN :
          LET r == encrypt_secret(sessions[s].attester, secrets_entry[p], secretOk)
          IN  IF r.ok
              THEN /\ mutex' = Unlock(s)
                   /\ Finish(p, 200, "",
                             [kind |-> "sealed", session |-> s,
                              plain |-> r.val.plain, padding |-> r.val.padding])
              ELSE /\ mutex' = UnlockPoisoned(s)
                   /\ PanicResponse(p)
    /\ UNCHANGED << now, sessions, req, attestOk, registry, harnessVars, storeVars >>

(***************************************************************************)
(* The environment: responses are delivered, time passes.                 *)
(***************************************************************************)

\* What Cancel records of a request: the session it named, as the request
\* leaves it.
Dropped(p) ==
    [kind |-> "cancelled",
     session |-> IF req[p].session_id \in DOMAIN sessions
                 THEN sessions[req[p].session_id]
                 ELSE NoBody]

\* Cancel as it would be if the handler awaited between attester.attest and
\* session.approve: the future is dropped there, and its guard with it.
CancelAfterAttest(p) ==
    /\ pc[p] \in {"auth_db", "attest_approve", "key_db"}
    /\ pc' = [pc EXCEPT ![p] = "dropped"]
    /\ resp' = [resp EXCEPT ![p] = Response(0, "cancelled", Dropped(p))]
    /\ measurement_entry' = [measurement_entry EXCEPT ![p] = <<>>]
    /\ mutex' = [s \in SessionIds |->
                    IF mutex[s].holder = p THEN [mutex[s] EXCEPT !.holder = Free]
                    ELSE mutex[s]]
    /\ UNCHANGED << now, sessions, req, secrets_entry, attestOk, registry,
                    harnessVars, storeVars >>

\* The client goes away while the handler is suspended in an await (lines
\* 157, 220, 263): the future of the handler is dropped with everything it
\* owns, and no response is sent.
Cancel(p) ==
    /\ pc[p] \in {"auth_db", "attest_db", "key_db"}
    /\ pc' = [pc EXCEPT ![p] = "dropped"]
    /\ resp' = [resp EXCEPT ![p] = Response(0, "cancelled", Dropped(p))]
    /\ UNCHANGED << now, sessions, mutex, req, measurement_entry, secrets_entry,
                    attestOk, registry, harnessVars, storeVars >>

\* The response has been sent, or the request dropped; the slot can serve
\* another request.
Return(p) ==
    /\ pc[p] \in {"done", "dropped"}
    /\ pc' = [pc EXCEPT ![p] = "idle"]
    /\ req' = [req EXCEPT ![p] = NoReq]
    /\ resp' = [resp EXCEPT ![p] = NoResp]
    /\ UNCHANGED << now, sessions, mutex, measurement_entry, secrets_entry,
                    attestOk, registry, harnessVars, storeVars >>

\* Instant::now() is monotonic.
Tick ==
    /\ now < MaxTime
    /\ now' = now + 1
    /\ UNCHANGED << sessions, mutex, pc, req, measurement_entry, secrets_entry,
                    resp, attestOk, registry, harnessVars, storeVars >>

Next ==
    \/ \E p \in Procs : AuthStart(p)
    \/ \E p \in Procs : AuthFinish(p)
    \/ \E p \in Procs : AttestStart(p)
    \/ \E p \in Procs : AttestGet(p)
    \/ \E p \in Procs : AttestWorkloadId(p)
    \/ \E p \in Procs : AttestDb(p)
    \/ \E p \in Procs : AttestLock(p)
    \/ \E p \in Procs : AttestCall(p)
    \/ \E p \in Procs : AttestApprove(p)
    \/ \E p \in Procs : KeyStart(p)
    \/ \E p \in Procs : KeyGet(p)
    \/ \E p \in Procs : KeyIsValid(p)
    \/ \E p \in Procs : KeyDb(p)
    \/ \E p \in Procs : KeyLock(p)
    \/ \E p \in Procs : KeyCall(p)
    \/ \E p \in Procs : Cancel(p)
    \/ \E p \in Procs : Return(p)
    \/ Tick

Spec == Init /\ [][Next]_vars

(***************************************************************************)
(* The handlers under the scheduling of the runtime.  The clock stands    *)
(* still: the deadline of a session decides which answer a request gets,  *)
(* never whether it gets one.                                             *)
(***************************************************************************)

\* The steps of the request of slot p that wait for nothing.
Runs(p) ==
    \/ AuthFinish(p)
    \/ AttestGet(p)
    \/ AttestDb(p)
    \/ AttestCall(p)
    \/ AttestApprove(p)
    \/ KeyGet(p)
    \/ KeyDb(p)
    \/ KeyCall(p)

\* The steps of the request of slot p that wait for a session guard.
Locks(p) ==
    \/ AttestWorkloadId(p)
    \/ AttestLock(p)
    \/ KeyIsValid(p)
    \/ KeyLock(p)

\* A request that can run does run: Rocket polls every ready future and an
\* external lookup returns.  A request waiting for a session guard gets it
\* if the guard is free again and again.  Nothing obliges a client to send
\* a request, to go away, or to read its response.
Fairness ==
    \A p \in Procs : WF_vars(Runs(p)) /\ SF_vars(Locks(p))

LiveNext ==
    \/ \E p \in Procs : AuthStart(p)
    \/ \E p \in Procs : AuthFinish(p)
    \/ \E p \in Procs : AttestStart(p)
    \/ \E p \in Procs : AttestGet(p)
    \/ \E p \in Procs : AttestWorkloadId(p)
    \/ \E p \in Procs : AttestDb(p)
    \/ \E p \in Procs : AttestLock(p)
    \/ \E p \in Procs : AttestCall(p)
    \/ \E p \in Procs : AttestApprove(p)
    \/ \E p \in Procs : KeyStart(p)
    \/ \E p \in Procs : KeyGet(p)
    \/ \E p \in Procs : KeyIsValid(p)
    \/ \E p \in Procs : KeyDb(p)
    \/ \E p \in Procs : KeyLock(p)
    \/ \E p \in Procs : KeyCall(p)
    \/ \E p \in Procs : Cancel(p)
    \/ \E p \in Procs : Return(p)

FairSpec == Init /\ [][LiveNext]_vars /\ Fairness

(***************************************************************************)
(* The attester driven directly: challenge, attest and encrypt_secret     *)
(* called in any order on one SevAttester (the Attester trait is public). *)
(***************************************************************************)

Logged(op, res) == [op |-> op, ok |-> res.ok, panic |-> res.panic, err |-> res.err]

UnitChallenge ==
    /\ Len(log) < MaxCalls
    /\ \E policyOk \in BOOLEAN, startOk \in BOOLEAN, jsonOk \in BOOLEAN :
          LET r == challenge(unit, policyOk, startOk, jsonOk) IN
             /\ unit' = r.att
             /\ log' = Append(log, Logged("challenge", r.res))
             /\ last' = [op |-> "challenge", arg |-> 0, res |-> r.res]
    /\ UNCHANGED << handlerVars, storeVars >>

UnitAttest ==
    /\ Len(log) < MaxCalls
    /\ \E ev \in Evidences, lm \in HexStrings, measureOk \in BOOLEAN :
          LET r == attest(unit, ev, lm, measureOk) IN
             /\ unit' = r.att
             /\ log' = Append(log, Logged("attest", r.res))
             /\ last' = [op |-> "attest", arg |-> Len(lm), res |-> r.res]
    /\ UNCHANGED << handlerVars, storeVars >>

UnitEncryptSecret ==
    /\ Len(log) < MaxCalls
    /\ \E len \in PlainLens, secretOk \in BOOLEAN :
          LET r == encrypt_secret(unit, len, secretOk) IN
             /\ log' = Append(log, Logged("encrypt_secret", r))
             /\ last' = [op |-> "encrypt_secret", arg |-> len, res |-> r]
    /\ UNCHANGED << unit, handlerVars, storeVars >>

AttesterNext ==
    \/ UnitChallenge
    \/ UnitAttest
    \/ UnitEncryptSecret

AttesterSpec == Init /\ [][AttesterNext]_vars

(***************************************************************************)
(* The secret store (src/src/secrets_store.rs): the admin handlers and    *)
(* the vault fetch, called concurrently on the process-wide SECRET_STORE. *)
(***************************************************************************)

StoreReq(op, store) ==
    [op |-> op, session_id |-> NoCookie, workload_id |-> "", store |-> store]

\* SecretStore::validate as it would be if it checked the token only.
validate_token_only(store) ==
    IF store.token = "" THEN Err("token cannot be empty") ELSE Ok(<<>>)

\* SecretStore::validate
validate(store) ==
    IF store.token = ""
    THEN Err("token cannot be empty")
    ELSE IF store.url = ""
    THEN Err("url cannot be empty")
    ELSE Ok(<<>>)

\* SECRET_STORE.read() as it would be if it did not wait for the writer.
CanReadStoreUnguarded == store_lock \in Procs \cup {Free}

\* SECRET_STORE.read(): blocks while a request holds the write guard.
CanReadStore == store_lock = Free

\* SECRET_STORE.write(): blocks while a request holds the write guard (a
\* read guard is never held between two steps).
CanWriteStore == store_lock = Free

\* read_secret_store, under the read guard.
read_secret_store == SecretStoreNew(secret_store.url, secret_store.token)

\* register_secret_store, lines 111-121: validate the submitted store; an
\* invalid one is answered {status: "error", reason}.
register_secret_store(p) ==
    /\ pc[p] = "idle"
    /\ \E url \in Urls, token \in Tokens :
          LET store == SecretStoreNew(url, token)
              valid == validate(store)
          IN  /\ req' = [req EXCEPT ![p] = StoreReq("update", store)]
              /\ IF valid.ok
                 THEN /\ Goto(p, "store_write")
                      /\ UNCHANGED << measurement_entry, secrets_entry >>
                 ELSE Finish(p, 200, "",
                             [kind |-> "status", status |-> "error",
                              reason |-> valid.err])
    /\ UNCHANGED << now, sessions, mutex, attestOk, registry, harnessVars, storeVars >>

\* write_secret_store, lines 96-97: take the write guard and start the
\* assignment *s = store, which moves the two strings one after the other.
write_secret_store_begin(p) ==
    /\ pc[p] = "store_write"
    /\ CanWriteStore
    /\ store_lock' = p
    /\ secret_store' = [secret_store EXCEPT !.url = req[p].store.url]
    /\ Goto(p, "store_assign")
    /\ UNCHANGED << now, sessions, mutex, req, measurement_entry, secrets_entry,
                    attestOk, registry, harnessVars, committed >>

\* write_secret_store, lines 97-98, and register_secret_store, line 116:
\* finish the assignment, drop the write guard, answer {status: "updated"}.
write_secret_store_end(p) ==
    /\ pc[p] = "store_assign"
    /\ secret_store' = [secret_store EXCEPT !.token = req[p].store.token]
    /\ committed' = secret_store'
    /\ store_lock' = Free
    /\ Finish(p, 200, "", [kind |-> "status", status |-> "updated", reason |-> ""])
    /\ UNCHANGED << now, sessions, mutex, req, attestOk, registry, harnessVars >>

\* get_secret_store, lines 105-108: Json(read_secret_store()).
get_secret_store(p) ==
    /\ pc[p] = "idle"
    /\ CanReadStore
    /\ req' = [req EXCEPT ![p] = StoreReq("get", SecretStoreDefault)]
    /\ Finish(p, 200, "",
              [kind |-> "store", url |-> read_secret_store.url,
               token |-> read_secret_store.token])
    /\ UNCHANGED << now, sessions, mutex, attestOk, registry, harnessVars, storeVars >>

\* get_secret_from_vault, lines 46-54: read the store, build the client,
\* start the read of the secret.
get_secret_from_vault(p) ==
    /\ pc[p] = "idle"
    /\ CanReadStore
    /\ req' = [req EXCEPT ![p] = StoreReq("fetch", read_secret_store)]
    /\ Goto(p, "vault_read")
    /\ UNCHANGED << now, sessions, mutex, measurement_entry, secrets_entry,
                    attestOk, registry, harnessVars, storeVars >>

\* get_secret_from_vault, line 55: kv2::read(..).await.unwrap().  No vault
\* answers a client built without an address or without a token; any other
\* read returns the secret or fails, and every failure is unwrapped.
vault_read_returns(p) ==
    /\ pc[p] = "vault_read"
    /\ \E found \in BOOLEAN :
          IF found /\ req[p].store.url # "" /\ req[p].store.token # ""
          THEN Finish(p, 200, "", [kind |-> "secret"])
          ELSE PanicResponse(p)
    /\ UNCHANGED << now, sessions, mutex, req, attestOk, registry, harnessVars, storeVars >>

StoreNext ==
    \/ \E p \in Procs : register_secret_store(p)
    \/ \E p \in Procs : write_secret_store_begin(p)
    \/ \E p \in Procs : write_secret_store_end(p)
    \/ \E p \in Procs : get_secret_store(p)
    \/ \E p \in Procs : get_secret_from_vault(p)
    \/ \E p \in Procs : vault_read_returns(p)
    \/ \E p \in Procs : Return(p)

StoreSpec == Init /\ [][StoreNext]_vars

(***************************************************************************)
(* Properties.                                                            *)
(***************************************************************************)

AttestPcs == {"attest_wid", "attest_db", "attest_lock", "attest_call", "attest_approve"}

KeyPcs == {"key_valid", "key_db", "key_lock", "key_call"}

\* Slot p answers its request in this step.
Answers(p) == pc[p] # "done" /\ pc'[p] = "done"

\* Slot p takes a step of its handler.
Steps(p) == pc'[p] # pc[p]

\* C1, first half: a key request holds the guard for encrypt_secret, or has
\* returned a sealed secret, only on a session on which an attest request
\* returned success before.
C1_SealedOnlyAfterAttest ==
    \A p \in Procs :
        \/ pc[p] = "key_call"
        \/ (pc[p] = "done" /\ req[p].op = "key" /\ resp[p].code = 200)
        => attestOk[req[p].session_id] >= 1

\* C1, second half: a key request whose cookie names no session, or a session
\* that is still Unauthorized, is answered 401 by the step that finds it so,
\* and so never reaches encrypt_secret.
C1_UnknownOrUnauthorizedGets401 ==
    \A p \in Procs :
        /\ (pc[p] = "key_get" /\ Steps(p)
               /\ req[p].session_id \notin DOMAIN sessions)
           => (Answers(p) /\ resp'[p].code = 401)
        /\ (pc[p] = "key_valid" /\ Steps(p)
               /\ sessions[req[p].session_id].status = "Unauthorized")
           => (Answers(p) /\ resp'[p].code = 401)

\* C1: under any interleaving of auth, attest and key requests, a key request
\* returns a sealed secret for a cookie only if an earlier attest on that
\* cookie returned success; a key request on an unknown or Unauthorized
\* session returns 401 and never invokes encrypt_secret.
C1_KeyOnlyAfterAttest ==
    /\ []C1_SealedOnlyAfterAttest
    /\ [][C1_UnknownOrUnauthorizedGets401]_vars

\* C2: a session enters the registry Unauthorized, by an auth request that
\* answers 200; a status changes only from Unauthorized to Authorized, and
\* only in the step in which an attest request on that session returns 200.
C2_StatusStep ==
    /\ \A s \in (DOMAIN sessions') \ (DOMAIN sessions) :
          /\ sessions'[s].status = "Unauthorized"
          /\ \E p \in Procs : /\ req[p].op = "auth" /\ req[p].session_id = s
                              /\ Answers(p) /\ resp'[p].code = 200
    /\ \A s \in DOMAIN sessions :
          /\ s \in DOMAIN sessions'
          /\ sessions'[s].status # sessions[s].status
             => /\ sessions[s].status = "Unauthorized"
                /\ sessions'[s].status = "Authorized"
                /\ \E p \in Procs : /\ req[p].op = "attest" /\ req[p].session_id = s
                                    /\ Answers(p) /\ resp'[p].code = 200

\* C2: the transition happens once: no second attest on a session succeeds,
\* and a session is Authorized exactly when one attest on it has succeeded.
C2_AtMostOneSuccess ==
    \A s \in SessionIds :
        /\ attestOk[s] <= 1
        /\ s \in DOMAIN sessions
           => (sessions[s].status = "Authorized" <=> attestOk[s] = 1)
        /\ s \notin DOMAIN sessions => attestOk[s] = 0

\* C2: every session is created by auth with status Unauthorized; its status
\* changes only from Unauthorized to Authorized, only as the result of a
\* successful attest on that session, and only once; an Authorized session
\* never becomes Unauthorized again.
C2_StatusLifecycle ==
    /\ []C2_AtMostOneSuccess
    /\ [][C2_StatusStep]_vars

\* C2 witness: a second attest on an Authorized session has been refused
\* because the Initialized session was consumed by the first.
C2_Witness ==
    \E p \in Procs :
        /\ pc[p] = "done" /\ req[p].op = "attest" /\ resp[p].code = 400
        /\ resp[p].reason = "SevMissingSession"
        /\ req[p].session_id \in DOMAIN sessions
        /\ sessions[req[p].session_id].status = "Authorized"
        /\ attestOk[req[p].session_id] = 1

\* The requests that hold the guard of session s.
InCriticalSection(s) ==
    { p \in Procs : /\ pc[p] \in {"attest_call", "attest_approve", "key_call"}
                    /\ req[p].session_id = s }

\* C3: attest requests carrying the same cookie run their attester.attest
\* calls one at a time, under the per-session mutex, and at most one of them
\* returns success.
C3_AttestSerialized ==
    \A s \in SessionIds :
        /\ Cardinality(InCriticalSection(s)) <= 1
        /\ \A p \in InCriticalSection(s) : mutex[s].holder = p
        /\ attestOk[s] <= 1
        /\ \A p, q \in Procs :
              /\ p # q
              /\ pc[p] = "done" /\ req[p].op = "attest" /\ req[p].session_id = s
              /\ pc[q] = "done" /\ req[q].op = "attest" /\ req[q].session_id = s
              => ~(resp[p].code = 200 /\ resp[q].code = 200)

\* C3 witness: two attest requests on one cookie; one holds the guard after
\* its attester.attest call succeeded, the other waits for the guard.
C3_Witness ==
    \E p, q \in Procs :
        /\ p # q
        /\ req[p].op = "attest" /\ req[q].op = "attest"
        /\ req[p].session_id = req[q].session_id
        /\ pc[p] = "attest_approve"
        /\ pc[q] = "attest_lock"
        /\ mutex[req[p].session_id].holder = p

\* C4: a key request that checks a session whose deadline has been reached
\* (now >= expires_on) is answered 401 "Invalid session", whether or not the
\* session was approved before.
C4_ExpiredKeyRejected ==
    [][\A p \in Procs :
          (/\ pc[p] = "key_valid" /\ Steps(p)
           /\ now >= sessions[req[p].session_id].expires_on)
          => /\ Answers(p)
             /\ resp'[p].code = 401
             /\ resp'[p].reason = "Invalid session"]_vars

\* C5: expiry is checked on every access of an attest request to its session
\* (the read of workload_id, the lock, the attester call, approve): a step
\* that accesses a session with now >= expires_on answers the request with an
\* error, does not drive the attester and does not approve the session.
C5_ExpiredAttestRejected ==
    [][\A p \in Procs :
          (/\ pc[p] \in {"attest_wid", "attest_lock", "attest_call", "attest_approve"}
           /\ Steps(p)
           /\ Expired(req[p].session_id))
          => /\ Answers(p)
             /\ resp'[p].code = 400
             /\ sessions' = sessions]_vars

\* C6: an attest request that is answered 400 leaves the status of its
\* session as it was, and if that status is Unauthorized the session is one
\* on which a key request is answered 401.
C6_FailedAttestNotApproved ==
    [][\A p \in Procs :
          (pc[p] \in AttestPcs /\ Answers(p) /\ resp'[p].code = 400)
          => LET s == req[p].session_id IN
                /\ sessions'[s].status = sessions[s].status
                /\ sessions[s].status = "Unauthorized"
                   => key_check(s)' = "Invalid session"]_vars

\* C7: an attester.attest call that returns an error on an attester holding
\* its Initialized session leaves that session in place.
C7_FailedAttestKeepsInitialized ==
    [][\A p \in Procs :
          (/\ pc[p] = "attest_call" /\ Answers(p) /\ resp'[p].code = 400
           /\ sessions[req[p].session_id].attester.session = Some)
          => sessions'[req[p].session_id].attester.session = Some]_vars

\* The calls before the i-th call of the log.
Earlier(i) == 1..(i - 1)

\* The i-th call returned an error (it neither succeeded nor panicked).
ReturnedError(i) == ~log[i].ok /\ ~log[i].panic

\* C8 as stated: encrypt_secret before a successful attest returns an error;
\* attest before challenge returns an error; a second challenge on the same
\* attester returns an error.
C8_OutOfPhaseRejected ==
    \A i \in 1..Len(log) :
        /\ (/\ log[i].op = "encrypt_secret"
            /\ \A j \in Earlier(i) : ~(log[j].op = "attest" /\ log[j].ok))
           => ReturnedError(i)
        /\ (/\ log[i].op = "attest"
            /\ \A j \in Earlier(i) : log[j].op # "challenge")
           => ReturnedError(i)
        /\ (/\ log[i].op = "challenge"
            /\ \E j \in Earlier(i) : log[j].op = "challenge")
           => ReturnedError(i)

\* C8 amended: encrypt_secret before a successful attest returns an error;
\* attest before a successful challenge returns an error; challenge returns
\* an error when an earlier challenge call on the same attester got past
\* Session::try_from(policy), that is, reached the take of the chain.
C8_OutOfPhaseRejectedAfterTake ==
    \A i \in 1..Len(log) :
        /\ (/\ log[i].op = "encrypt_secret"
            /\ \A j \in Earlier(i) : ~(log[j].op = "attest" /\ log[j].ok))
           => ReturnedError(i)
        /\ (/\ log[i].op = "attest"
            /\ \A j \in Earlier(i) : ~(log[j].op = "challenge" /\ log[j].ok))
           => ReturnedError(i)
        /\ (/\ log[i].op = "challenge"
            /\ \E j \in Earlier(i) : log[j].op = "challenge" /\ log[j].err # "SevPolicy")
           => ReturnedError(i)

\* C8 witness: encrypt_secret and attest were refused on the fresh attester,
\* challenge then succeeded, and a second challenge was refused.
C8_Witness ==
    /\ Len(log) = 4
    /\ log[1].op = "encrypt_secret" /\ log[1].err = "SevMissingVerified"
    /\ log[2].op = "attest" /\ log[2].err = "SevMissingSession"
    /\ log[3].op = "challenge" /\ log[3].ok
    /\ log[4].op = "challenge" /\ log[4].err = "SevMissingChain"

\* C9: in the key handler every failure after the session is resolved and
\* found valid (a failed secret fetch, an error of encrypt_secret) is
\* answered 401, never by a panic.
C9_KeyFailuresAre401 ==
    [][\A p \in Procs :
          (pc[p] \in {"key_db", "key_call"} /\ Answers(p) /\ resp'[p].code # 200)
          => resp'[p].code = 401]_vars

\* C10: on a Verified attester encrypt_secret(p) with len(p) <= 4096 completes
\* (unless session.secret itself fails) and wraps p followed by zero padding,
\* at least 512 bytes in all and exactly 512 when len(p) <= 512; only
\* len(p) > 4096 is rejected, with the input-too-large error.
C10_EncryptSecretPads ==
    (last.op = "encrypt_secret" /\ unit.session_verified = Some)
    => IF last.arg <= MaxSecretLen
       THEN last.res.err # "SevSecret"
            => /\ last.res.ok
               /\ last.res.val.plain = last.arg
               /\ last.res.val.plain + last.res.val.padding >= PadLen
               /\ last.arg <= PadLen
                  => last.res.val.plain + last.res.val.padding = PadLen
       ELSE ReturnedError(Len(log)) /\ last.res.err = "SevSecretTooLong"

\* C11: every successful auth returns a Challenge whose nonce, and the id
\* inside its extra_params, equal the freshly generated session id that auth
\* sets in the session_id cookie and uses as the key of the registry.
C11_NonceIsSessionId ==
    \A p \in Procs :
        (pc[p] = "done" /\ req[p].op = "auth" /\ resp[p].code = 200)
        => /\ resp[p].body.cookie = req[p].session_id
           /\ resp[p].body.cookie \in DOMAIN sessions
           /\ resp[p].body.nonce = resp[p].body.cookie
           /\ resp[p].body.id = resp[p].body.cookie

\* C12: only a request whose measurement record was found goes on to the
\* guard and the attester.
C12_AttesterNeedsMeasurement ==
    \A p \in Procs :
        pc[p] \in {"attest_lock", "attest_call", "attest_approve"}
        => measurement_entry[p] \in LaunchMeasurements

\* C12: the step in which the measurements lookup of an attest request finds
\* no record answers 400 and changes no session and no guard.
C12_MissingMeasurementStep ==
    \A p \in Procs :
        (pc[p] = "attest_db" /\ Answers(p))
        => /\ resp'[p].code = 400
           /\ sessions' = sessions
           /\ mutex' = mutex

\* C12: a session is created by auth whether or not its workload has a
\* measurement record; an attest on it that finds no record returns 400
\* before the attester is invoked, so the session stays Unauthorized and its
\* attester Initialized.
C12_MissingMeasurementRejected ==
    /\ []C12_AttesterNeedsMeasurement
    /\ [][C12_MissingMeasurementStep]_vars

\* C12 witness: an attest request found no measurement record and was
\* answered 400; its session, issued by auth, is still Unauthorized with an
\* Initialized attester and a free guard.
C12_Witness ==
    \E p \in Procs :
        /\ pc[p] = "done" /\ req[p].op = "attest"
        /\ resp[p].code = 400 /\ resp[p].reason = "NotFound"
        /\ sessions[req[p].session_id].status = "Unauthorized"
        /\ sessions[req[p].session_id].attester.session = Some
        /\ sessions[req[p].session_id].attester.session_verified = None
        /\ mutex[req[p].session_id] = [holder |-> Free, poisoned |-> FALSE]

\* C13: a request is at the write of the store only with a store whose url
\* and token are both non-empty.
C13_OnlyValidStoreWritten ==
    \A p \in Procs :
        pc[p] \in {"store_write", "store_assign"}
        => (req[p].store.url # "" /\ req[p].store.token # "")

\* C13: the step that takes in an update with an empty url or an empty token
\* answers it {status: "error", reason} and changes neither the store nor
\* its lock, so that a get that follows reads the store as it was.
C13_InvalidUpdateStep ==
    \A p \in Procs :
        (/\ pc[p] = "idle" /\ Steps(p) /\ req'[p].op = "update"
         /\ (req'[p].store.url = "" \/ req'[p].store.token = ""))
        => /\ Answers(p)
           /\ resp'[p].body.kind = "status"
           /\ resp'[p].body.status = "error"
           /\ resp'[p].body.reason # ""
           /\ secret_store' = secret_store
           /\ store_lock' = store_lock
           /\ committed' = committed

\* C13: an admin update whose url or token is empty is rejected with
\* {status: "error", reason} and leaves the process-wide secret store
\* exactly as it was before the request.
C13_InvalidUpdateRejected ==
    /\ []C13_OnlyValidStoreWritten
    /\ [][C13_InvalidUpdateStep]_vars

\* C13 witness: an update with an empty url has been rejected after an
\* earlier update had set the store, which still holds what that one wrote.
C13_Witness ==
    \E p \in Procs :
        /\ pc[p] = "done" /\ req[p].op = "update"
        /\ req[p].store.url = "" /\ req[p].store.token # ""
        /\ resp[p].body.status = "error"
        /\ resp[p].body.reason = "url cannot be empty"
        /\ store_lock = Free
        /\ secret_store = committed
        /\ committed = SecretStoreNew("u1", "t1")

\* C14: the step that completes an update answers {status: "updated"} and
\* leaves in the store exactly the url and token that update submitted.
C14_UpdateStep ==
    \A p \in Procs :
        (pc[p] = "store_assign" /\ Answers(p))
        => /\ resp'[p].body.status = "updated"
           /\ secret_store' = req[p].store
           /\ committed' = req[p].store
           /\ store_lock' = Free

\* C14: a get returns the url and token of the update completed last (of
\* SecretStore::default() before the first), whatever updates are under way.
C14_GetStep ==
    \A p \in Procs :
        (pc[p] = "idle" /\ Answers(p) /\ req'[p].op = "get")
        => /\ resp'[p].code = 200
           /\ resp'[p].body.url = committed.url
           /\ resp'[p].body.token = committed.token

\* C14: an update {url: U, token: T} with U and T non-empty, followed by a
\* get with no other update in between, returns exactly {url: U, token: T};
\* under concurrent updates a get returns a pair written by one update.
C14_GetReturnsLastUpdate ==
    [][C14_UpdateStep /\ C14_GetStep]_vars

\* C14 witness: a get has returned the pair of a completed update while
\* another update, of another url and token, is in the middle of its write.
C14_Witness ==
    \E p, q \in Procs :
        /\ pc[p] = "done" /\ req[p].op = "get"
        /\ resp[p].body.url = "u1" /\ resp[p].body.token = "t1"
        /\ committed = SecretStoreNew("u1", "t1")
        /\ pc[q] = "store_assign" /\ store_lock = q
        /\ req[q].store = SecretStoreNew("u2", "t2")
        /\ secret_store = SecretStoreNew("u2", "t1")

\* C15: the store read by every get and by every vault fetch, from the
\* initial state on, has a non-empty url and a non-empty token.
C15_ConfigNonEmpty ==
    \A p \in Procs :
        /\ (pc[p] = "done" /\ req[p].op = "get")
           => (resp[p].body.url # "" /\ resp[p].body.token # "")
        /\ req[p].op = "fetch"
           => (req[p].store.url # "" /\ req[p].store.token # "")

\* C16: a key request that found its session Authorized and unexpired and
\* fetched a secret the attester can wrap (at most 512 bytes) gets the guard
\* and goes on to encrypt_secret; a key request that returns 200 returns the
\* sealed secret and leaves every session, its status and its attester, and
\* the guard as they were, so that further key requests succeed alike.
C16_KeyRepeatable ==
    [][\A p \in Procs :
          /\ (pc[p] = "key_lock" /\ Steps(p) /\ secrets_entry[p] <= PadLen)
             => pc'[p] = "key_call"
          /\ (pc[p] \in KeyPcs /\ Answers(p) /\ resp'[p].code = 200)
             => /\ resp'[p].body.kind = "sealed"
                /\ resp'[p].body.plain = secrets_entry[p]
                /\ sessions' = sessions
                /\ sessions[req[p].session_id].status = "Authorized"
                /\ sessions[req[p].session_id].attester.session_verified = Some
                /\ mutex'[req[p].session_id] = [holder |-> Free, poisoned |-> FALSE]
      ]_vars

\* C17 (I1): whenever a session of the registry is Authorized its attester
\* holds a verified session, so that encrypt_secret on it never returns the
\* wrong-state error.
C17_AuthorizedHasVerified ==
    \A s \in DOMAIN sessions :
        sessions[s].status = "Authorized"
        => /\ sessions[s].attester.session_verified = Some
           /\ \A len \in SecretLens, secretOk \in BOOLEAN :
                 encrypt_secret(sessions[s].attester, len, secretOk).err
                    # "SevMissingVerified"

\* C17 witness: a key request holds the guard of an Authorized session and is
\* about to call encrypt_secret on its attester.
C17_Witness ==
    \E p \in Procs :
        /\ pc[p] = "key_call"
        /\ sessions[req[p].session_id].status = "Authorized"
        /\ sessions[req[p].session_id].attester.session_verified = Some

\* The session guards held by the request of slot p.
GuardsHeld(p) == { s \in SessionIds : mutex[s].holder = p }

\* The positions at which a handler is suspended in an await.
SuspensionPcs == {"auth_db", "attest_db", "key_db"}

\* C18: no handler is at an I/O suspension point (the policy lookup of auth,
\* the measurement lookup of attest, the secret fetch of key) while it holds
\* a per-session mutex or a guard of the registry lock; the per-session
\* mutex is taken again only after the fetch, for the attester call.
C18_NoLockAtSuspension ==
    \A p \in Procs :
        /\ pc[p] \in SuspensionPcs => (GuardsHeld(p) = {} /\ p \notin registry)
        /\ GuardsHeld(p) # {}
           => /\ pc[p] \in {"attest_call", "attest_approve", "key_call"}
              /\ GuardsHeld(p) = {req[p].session_id}

\* C18 witness: one request is suspended in its measurement lookup, holding
\* nothing, while another holds the guard of the same session for its
\* attester call.
C18_Witness ==
    \E p, q \in Procs :
        /\ pc[p] = "attest_db" /\ pc[q] = "key_call"
        /\ req[p].session_id = req[q].session_id
        /\ mutex[req[q].session_id].holder = q
        /\ GuardsHeld(p) = {} /\ registry = {}

\* The request of slot p waits for the guard of its session.
Waiting(p) ==
    /\ pc[p] \in {"attest_wid", "attest_lock", "key_valid", "key_lock"}
    /\ ~CanLock(req[p].session_id)

\* C19: a request holds at most one session guard, and no session guard
\* while it holds a guard of the registry.
C19_LockOrder ==
    \A p \in Procs :
        /\ Cardinality(GuardsHeld(p)) <= 1
        /\ p \in registry => (GuardsHeld(p) = {} /\ pc[p] \in {"attest_get", "key_get"})

\* C19: a step in which a request takes a guard of the registry (the read
\* guard of attest and key, the write guard of auth's insert) is taken by a
\* request that holds no session guard.
C19_RegistryStep ==
    \A p \in Procs :
        \/ (p \notin registry /\ p \in registry')
        \/ (req[p].op = "auth" /\ Steps(p) /\ sessions' # sessions)
        => GuardsHeld(p) = {}

\* C19: no request waits in a cycle: a request that waits for a session
\* guard waits for another request, which holds that guard at a step that
\* waits for nothing; the holders of a read guard of the registry, for
\* which an insert waits, are at a step that waits for nothing.
C19_NoDeadlock ==
    \A p \in Procs :
        Waiting(p)
        => LET q == mutex[req[p].session_id].holder IN
              /\ q \in Procs \ {p}
              /\ pc[q] \in {"attest_call", "attest_approve", "key_call"}
              /\ ~Waiting(q)

\* C19: every started request is answered, or dropped by its client.
C19_EveryRequestReturns ==
    \A p \in Procs :
        (pc[p] \notin {"idle", "done", "dropped"})
           ~> (pc[p] \in {"done", "dropped"})

\* C19: locks are taken only in the order registry lock, then per-session
\* mutex: no handler takes the registry lock while it holds a per-session
\* mutex and none holds two per-session mutexes; no interleaving of auth,
\* attest and key requests reaches a deadlock, and every started request
\* eventually returns a response, its external lookup returning.  (The
\* three safety conjuncts hold under Spec as well, with the clock running.)
C19_LockOrderNoDeadlock ==
    /\ []C19_LockOrder
    /\ []C19_NoDeadlock
    /\ [][C19_RegistryStep]_vars
    /\ C19_EveryRequestReturns

\* C19 witness: a request waits for the guard of a session that another
\* request holds, while a third lock, the registry's, is free.
C19_Witness ==
    \E p, q \in Procs :
        /\ Waiting(p) /\ pc[p] = "key_lock"
        /\ pc[q] = "attest_call"
        /\ mutex[req[p].session_id].holder = q
        /\ registry = {}

\* C20: a dropped request holds no session guard and no guard of the
\* registry.
C20_DroppedHoldsNothing ==
    \A p \in Procs :
        pc[p] = "dropped" => (GuardsHeld(p) = {} /\ p \notin registry)

\* C20: an attest request is dropped only at its suspension point, and the
\* step that drops it changes no session, no guard and not the registry.
C20_CancelStep ==
    \A p \in Procs :
        (req[p].op = "attest" /\ pc[p] # "dropped" /\ pc'[p] = "dropped")
        => /\ pc[p] = "attest_db"
           /\ sessions' = sessions
           /\ mutex' = mutex
           /\ registry' = registry
           /\ resp'[p].body.session = sessions'[req[p].session_id]

\* C20: the steps of an attest request up to its suspension point change no
\* session and leave every guard free that they found free.
C20_BeforeSuspension ==
    \A p \in Procs :
        (/\ req'[p].op = "attest" /\ Steps(p)
         /\ pc'[p] \in {"attest_get", "attest_wid", "attest_db"})
        => (sessions' = sessions /\ mutex' = mutex)

\* C20: an attest request cancelled at its suspension point leaves its
\* session exactly as before the request, status and attester sub-state
\* unchanged, and holds no per-session or registry lock, so that the next
\* attest on the same cookie can run and succeed.
C20_CancelledAttestLeavesSession ==
    /\ []C20_DroppedHoldsNothing
    /\ [][C20_CancelStep /\ C20_BeforeSuspension]_vars

\* C20 witness: an attest request was dropped while its session was
\* Unauthorized with an Initialized attester, and an attest request on the
\* same cookie has since returned 200.
C20_Witness ==
    \E p, q \in Procs :
        /\ pc[p] = "dropped" /\ req[p].op = "attest"
        /\ resp[p].body.session.status = "Unauthorized"
        /\ resp[p].body.session.attester.session = Some
        /\ pc[q] = "done" /\ req[q].op = "attest"
        /\ req[q].session_id = req[p].session_id
        /\ resp[q].code = 200
        /\ sessions[req[q].session_id].status = "Authorized"

\* The sub-state slots of attester a that hold a value.
Occupied(a) ==
    { slot \in {"chain", "session", "session_verified"} :
         \/ (slot = "chain" /\ a.chain = Some)
         \/ (slot = "session" /\ a.session = Some)
         \/ (slot = "session_verified" /\ a.session_verified = Some) }

\* C21: at most one of the three slots of the attester is occupied.
C21_OneSlot == Cardinality(Occupied(unit)) <= 1

\* C21: a call that stores the Initialized session has moved the chain out,
\* and a call that stores the Verified session has moved the Initialized
\* session out.
C21_SlotStep ==
    /\ (unit.session = None /\ unit'.session = Some)
       => (last'.op = "challenge" /\ unit.chain = Some /\ unit'.chain = None)
    /\ (unit.session_verified = None /\ unit'.session_verified = Some)
       => (last'.op = "attest" /\ unit.session = Some /\ unit'.session = None)

\* C21: in every reachable state of a SEV attester at most one of its three
\* sub-state slots (chain, Initialized session, Verified session) is
\* occupied; challenge moves the chain out before it stores the Initialized
\* session, a successful attest moves the Initialized session out before it
\* stores the Verified session.
C21_OneSubStateAtATime ==
    /\ []C21_OneSlot
    /\ [][C21_SlotStep]_vars

\* C21 witness: after a successful challenge and a successful attest the
\* attester holds the Verified session and nothing else.
C21_Witness ==
    /\ Len(log) = 2
    /\ log[1].op = "challenge" /\ log[1].ok
    /\ log[2].op = "attest" /\ log[2].ok
    /\ Occupied(unit) = {"session_verified"}


\* C22: whenever the key handler invokes encrypt_secret on a session (the
\* step it takes from "key_call", lib.rs 267-270), that session is valid in
\* the state the call is made in: its status is Authorized and now is before
\* its expires_on, as is_valid found before the secrets lookup.
C22_ValidAtEncrypt ==
    [][\A p \in Procs :
          (pc[p] = "key_call" /\ Steps(p))
             => is_valid(sessions[req[p].session_id])
      ]_vars


\* C23: a failing request does not make its session unusable.  An attest or
\* key request that is answered with a failure leaves the mutex of its
\* session released by it and not poisoned; and a key request that comes to lock an
\* Authorized, unexpired session (lib.rs 252, 266) is not answered with the
\* panic of lock().unwrap(): it gets the guard.
C23_FailureStep ==
    \A p \in Procs :
        /\ (pc[p] \in AttestPcs \cup KeyPcs /\ Answers(p) /\ resp'[p].code # 200)
           => /\ ~mutex'[req[p].session_id].poisoned
              /\ mutex'[req[p].session_id].holder # p
        /\ (/\ pc[p] \in {"key_valid", "key_lock"}
            /\ Steps(p)
            /\ is_valid(sessions[req[p].session_id]))
           => ~(Answers(p) /\ resp'[p].code = 500)

C23_FailureLeavesSessionUsable == [][C23_FailureStep]_vars

=============================================================================
